---------------------------- MODULE Spec2Model ----------------------------
(***************************************************************************)
(* Health-Analyzer (src/app.py): a Flask application that classifies five  *)
(* health metrics submitted through a form, rolls them up into an overall  *)
(* summary, stores fully parsed submissions in the SQLite table "reports", *)
(* and lists, exports and deletes the stored rows scoped by the session's  *)
(* user.                                                                   *)
(*                                                                         *)
(* Numbers.  A Python number is a record [t, n, d]:                        *)
(*   t = "num"   the finite value n/d (d > 0, lowest terms)                *)
(*   t = "nan"   float NaN                                                 *)
(*   t = "inf"   float infinity of sign n                                  *)
(*   t = "huge"  a finite value of sign n whose magnitude is at least 2^63 *)
(*   t = "none"  Python None, which sqlite3 stores and returns as NULL     *)
(* A form field is a record [c, n, d] describing the submitted text:       *)
(*   c = "absent" the key is not in the form, "empty" the text "",         *)
(*   c = "junk"  text that is no number, c = "dec" the decimal text n/d    *)
(*   (d = 1: digits only, d = 10: one digit after the point), c = "nan",   *)
(*   c = "inf" ("inf"/"-inf"), c = "huge" (digits only, beyond 64 bits).   *)
(*                                                                         *)
(* Finite floats are kept as exact rationals: the inputs drawn stay clear  *)
(* of the cases where binary rounding decides a comparison.  The column    *)
(* created_at (the wall clock at the insert) is left out of the rows; no   *)
(* handler reads it except to display it.  The session's user_id is 0 when *)
(* the session holds none: ids start at 1, so "if user_id" tests just      *)
(* that, and a row saved by a guest has user_id 0 for NULL.                *)
(***************************************************************************)
EXTENDS Integers, Sequences, FiniteSets, TLC

VARIABLES
    users,     \* the table "users": a sequence of rows in id order
    session,   \* the session cookie: [user_id, user_name], 0 and "" when clear
    reports,   \* the table "reports": a set of rows
    nextId,    \* the largest id AUTOINCREMENT has handed out for "reports"
    form,      \* the analyzer form a behaviour of SpecEval submits
    response,  \* the request last handled and the response to it
    locals,    \* the local variables of index() when the handler ended
    log,       \* history: every row inserted into "reports", in order
    deleted    \* history: the ids of the rows deleted from "reports"

vars == <<users, session, reports, nextId, form, response, locals, log, deleted>>

---------------------------------------------------------------------------
(* Bounds of the model *)

MaxReports == 3

---------------------------------------------------------------------------
(* Python values *)

PyNone == [t |-> "none", n |-> 0, d |-> 1]

NaN == [t |-> "nan", n |-> 0, d |-> 1]

Inf(sign) == [t |-> "inf", n |-> sign, d |-> 1]

Huge(sign) == [t |-> "huge", n |-> sign, d |-> 1]

Abs(x) == IF x < 0 THEN -x ELSE x

RECURSIVE GCD(_, _)
GCD(a, b) == IF b = 0 THEN a ELSE GCD(b, a % b)

Num(n, d) ==
    LET g == GCD(Abs(n), Abs(d))
        s == IF d < 0 THEN -1 ELSE 1
    IN [t |-> "num", n |-> (s * n) \div g, d |-> (s * d) \div g]

Sign(x) == IF x.n < 0 THEN -1 ELSE IF x.n > 0 THEN 1 ELSE 0

(* x < c/10 and x > c/10 as Python's float and int comparisons decide them: *)
(* every comparison with NaN is false.                                      *)
Lt(x, c) ==
    CASE x.t = "num" -> x.n * 10 < c * x.d
      [] x.t \in {"inf", "huge"} -> x.n < 0
      [] OTHER -> FALSE

Gt(x, c) ==
    CASE x.t = "num" -> x.n * 10 > c * x.d
      [] x.t \in {"inf", "huge"} -> x.n > 0
      [] OTHER -> FALSE

---------------------------------------------------------------------------
(* Reading and parsing the form *)

Absent == [c |-> "absent", n |-> 0, d |-> 1]

Empty == [c |-> "empty", n |-> 0, d |-> 1]

Junk == [c |-> "junk", n |-> 0, d |-> 1]

Dec(n) == [c |-> "dec", n |-> n, d |-> 1]

Dec1(n) == [c |-> "dec", n |-> n, d |-> 10]

TxtNaN == [c |-> "nan", n |-> 0, d |-> 1]

TxtInf(sign) == [c |-> "inf", n |-> sign, d |-> 1]

TxtHuge(sign) == [c |-> "huge", n |-> sign, d |-> 1]

(* request.form.get(key) or None: a missing key and the empty text both *)
(* give None.                                                            *)
FormGetOrNone(f, key) ==
    IF f[key].c \in {"absent", "empty"} THEN Absent ELSE f[key]

(* float(raw): raises on None and on text that is no number; accepts the *)
(* texts "nan" and "inf".                                                *)
ParseFloat(raw) ==
    CASE raw.c = "dec" -> [ok |-> TRUE, val |-> Num(raw.n, raw.d)]
      [] raw.c = "nan" -> [ok |-> TRUE, val |-> NaN]
      [] raw.c = "inf" -> [ok |-> TRUE, val |-> Inf(raw.n)]
      [] raw.c = "huge" -> [ok |-> TRUE, val |-> Huge(raw.n)]
      [] OTHER -> [ok |-> FALSE, val |-> PyNone]

(* int(raw): raises on None, on text that is no number, on text with a *)
(* decimal point and on "nan"/"inf"; has no upper limit.                *)
ParseInt(raw) ==
    CASE raw.c = "dec" /\ raw.d = 1 -> [ok |-> TRUE, val |-> Num(raw.n, 1)]
      [] raw.c = "huge" -> [ok |-> TRUE, val |-> Huge(raw.n)]
      [] OTHER -> [ok |-> FALSE, val |-> PyNone]


---------------------------------------------------------------------------
(* Float arithmetic of the BMI block *)

(* x / 100.0 *)
FDiv100(x) ==
    IF x.t = "num" THEN Num(x.n, x.d * 100) ELSE x

(* x * x *)
FSquare(x) ==
    CASE x.t = "num" -> Num(x.n * x.n, x.d * x.d)
      [] x.t = "nan" -> NaN
      [] x.t = "inf" -> Inf(1)
      [] OTHER -> Huge(1)

(* x / y: Python raises ZeroDivisionError on a zero divisor whatever the *)
(* dividend is; the other cases follow IEEE 754.                          *)
FDiv(x, y) ==
    CASE y.t = "num" /\ y.n = 0 -> [ok |-> FALSE, val |-> PyNone]
      [] x.t = "nan" \/ y.t = "nan" -> [ok |-> TRUE, val |-> NaN]
      [] y.t = "inf" ->
            [ok |-> TRUE, val |-> IF x.t = "inf" THEN NaN ELSE Num(0, 1)]
      [] x.t = "inf" -> [ok |-> TRUE, val |-> Inf(Sign(x) * Sign(y))]
      [] x.t = "num" /\ y.t = "num" ->
            [ok |-> TRUE, val |-> Num(x.n * y.d, x.d * y.n)]
      [] OTHER -> [ok |-> TRUE, val |-> Huge(Sign(x) * Sign(y))]

(* f"{x:.1f}": one digit after the point, ties to even, "nan", "inf" and *)
(* "-inf" for the special values.  The digits are those of the rational   *)
(* value n/d.                                                             *)
FormatF1(x) ==
    CASE x.t = "nan" -> "nan"
      [] x.t = "inf" -> IF x.n < 0 THEN "-inf" ELSE "inf"
      [] x.t = "num" ->
            LET a == Abs(x.n)
                q == (10 * a) \div x.d
                r == (10 * a) % x.d
                up == IF 2 * r > x.d THEN 1
                      ELSE IF 2 * r = x.d THEN q % 2 ELSE 0
                tenths == q + up
                sgn == IF x.n < 0 THEN "-" ELSE ""
            IN sgn \o ToString(tenths \div 10) \o "." \o ToString(tenths % 10)
      [] OTHER -> IF x.n < 0 THEN "-1e+19" ELSE "1e+19"

---------------------------------------------------------------------------
(* Per-metric classification.  A status text is a sequence of tokens: the *)
(* labels of the first four metrics are one token, a BMI label is the     *)
(* formatted number, " (", the category and ")".                           *)

Cls(metric, status, advice) ==
    [metric |-> metric, status |-> status, advice |-> advice]

StatusOf(result_, metric) ==
    LET i == CHOOSE j \in 1..Len(result_) : result_[j].metric = metric
    IN result_[i].status

ClassifyHb(hb) ==
    IF Lt(hb, 120) THEN
        Cls("Hemoglobin", <<"Low">>,
            "Hemoglobin appears lower than the normal range. Consult a doctor if symptoms persist.")
    ELSE IF Gt(hb, 160) THEN
        Cls("Hemoglobin", <<"High">>,
            "Hemoglobin appears higher than the normal range. A medical check-up is recommended.")
    ELSE
        Cls("Hemoglobin", <<"Normal">>, "Hemoglobin is within the normal range.")

(* Variant: a value that does not parse is taken as zero. *)
EvalHbZeroOnError(hb_raw) ==
    LET p == ParseFloat(hb_raw)
    IN IF p.ok THEN [hb |-> p.val, cls |-> ClassifyHb(p.val)]
       ELSE [hb |-> Num(0, 1),
             cls |-> Cls("Hemoglobin", <<"Error">>,
                         "Please enter a valid Hemoglobin value.")]

EvalHb(hb_raw) ==
    LET p == ParseFloat(hb_raw)
    IN IF p.ok THEN [hb |-> p.val, cls |-> ClassifyHb(p.val)]
       ELSE [hb |-> PyNone,
             cls |-> Cls("Hemoglobin", <<"Error">>,
                         "Please enter a valid Hemoglobin value.")]

ClassifySugar(sugar) ==
    IF Lt(sugar, 700) THEN
        Cls("Fasting Sugar", <<"Low">>,
            "Low fasting sugar may cause dizziness or weakness.")
    ELSE IF Gt(sugar, 1250) THEN
        Cls("Fasting Sugar", <<"High">>,
            "Fasting sugar appears high and may indicate diabetes. Consult a doctor.")
    ELSE
        Cls("Fasting Sugar", <<"Normal">>,
            "Fasting sugar is within the normal range.")

EvalSugar(sugar_raw) ==
    LET p == ParseFloat(sugar_raw)
    IN IF p.ok THEN [sugar |-> p.val, cls |-> ClassifySugar(p.val)]
       ELSE [sugar |-> PyNone,
             cls |-> Cls("Fasting Sugar", <<"Error">>,
                         "Please enter a valid sugar value.")]

(* Variant: High is checked before Low. *)
ClassifyBPHighFirst(bp_sys, bp_dia) ==
    IF Gt(bp_sys, 1400) \/ Gt(bp_dia, 900) THEN
        Cls("Blood Pressure", <<"High">>,
            "Blood pressure is high and may pose risks. A medical consultation is recommended.")
    ELSE IF Lt(bp_sys, 900) \/ Lt(bp_dia, 600) THEN
        Cls("Blood Pressure", <<"Low">>,
            "Blood pressure is low. Hydration and rest may help.")
    ELSE
        Cls("Blood Pressure", <<"Normal">>,
            "Blood pressure is within the normal range.")

ClassifyBP(bp_sys, bp_dia) ==
    IF Lt(bp_sys, 900) \/ Lt(bp_dia, 600) THEN
        Cls("Blood Pressure", <<"Low">>,
            "Blood pressure is low. Hydration and rest may help.")
    ELSE IF Gt(bp_sys, 1400) \/ Gt(bp_dia, 900) THEN
        Cls("Blood Pressure", <<"High">>,
            "Blood pressure is high and may pose risks. A medical consultation is recommended.")
    ELSE
        Cls("Blood Pressure", <<"Normal">>,
            "Blood pressure is within the normal range.")

(* One try block around both int() calls: when either raises, both *)
(* components are set to None.                                      *)
EvalBP(bp_sys_raw, bp_dia_raw) ==
    LET ps == ParseInt(bp_sys_raw)
        pd == ParseInt(bp_dia_raw)
    IN IF ps.ok /\ pd.ok
       THEN [bp_sys |-> ps.val, bp_dia |-> pd.val,
             cls |-> ClassifyBP(ps.val, pd.val)]
       ELSE [bp_sys |-> PyNone, bp_dia |-> PyNone,
             cls |-> Cls("Blood Pressure", <<"Error">>,
                         "Please enter valid BP values.")]

(* Variant: the High threshold is inclusive. *)
ClassifyCholInclusive(chol) ==
    IF ~Lt(chol, 2400) /\ chol.t # "nan" THEN
        Cls("Cholesterol", <<"High">>,
            "Cholesterol is high and may increase heart disease risk.")
    ELSE IF Gt(chol, 2000) THEN
        Cls("Cholesterol", <<"Borderline">>,
            "Cholesterol is borderline high. Healthy diet and lifestyle changes may help.")
    ELSE
        Cls("Cholesterol", <<"Normal">>, "Cholesterol is within a healthy range.")

ClassifyChol(chol) ==
    IF Gt(chol, 2400) THEN
        Cls("Cholesterol", <<"High">>,
            "Cholesterol is high and may increase heart disease risk.")
    ELSE IF Gt(chol, 2000) THEN
        Cls("Cholesterol", <<"Borderline">>,
            "Cholesterol is borderline high. Healthy diet and lifestyle changes may help.")
    ELSE
        Cls("Cholesterol", <<"Normal">>, "Cholesterol is within a healthy range.")

EvalChol(chol_raw) ==
    LET p == ParseFloat(chol_raw)
    IN IF p.ok THEN [chol |-> p.val, cls |-> ClassifyChol(p.val)]
       ELSE [chol |-> PyNone,
             cls |-> Cls("Cholesterol", <<"Error">>,
                         "Please enter a valid cholesterol value.")]

ClassifyBMI(bmi_value) ==
    IF Lt(bmi_value, 185) THEN
        Cls("BMI", <<FormatF1(bmi_value), " (", "Underweight", ")">>,
            "BMI indicates underweight. A balanced nutritious diet is recommended.")
    ELSE IF Gt(bmi_value, 249) THEN
        Cls("BMI", <<FormatF1(bmi_value), " (", "Overweight", ")">>,
            "BMI indicates overweight. Regular exercise and diet control are advised.")
    ELSE
        Cls("BMI", <<FormatF1(bmi_value), " (", "Normal", ")">>,
            "BMI is within normal limits.")

(* One try block around both float() calls and the division: when any of *)
(* them raises, height_cm and weight_kg are set to None and bmi_value     *)
(* keeps the value it had before the block (bmi0).                        *)
EvalBMI(height_raw, weight_raw, bmi0) ==
    LET ph == ParseFloat(height_raw)
        pw == ParseFloat(weight_raw)
        height_m == FDiv100(ph.val)
        q == FDiv(pw.val, FSquare(height_m))
        failed == [height_cm |-> PyNone, weight_kg |-> PyNone,
                   bmi_value |-> bmi0,
                   cls |-> Cls("BMI", <<"Error">>,
                               "Please enter valid height and weight.")]
    IN IF ~ph.ok THEN failed
       ELSE IF ~pw.ok THEN failed
       ELSE IF ~q.ok THEN failed
       ELSE [height_cm |-> ph.val, weight_kg |-> pw.val, bmi_value |-> q.val,
             cls |-> ClassifyBMI(q.val)]

---------------------------------------------------------------------------
(* Overall summary *)

NoSummary == <<>>

StartsWith(s, w) == Len(s) > 0 /\ s[1] = w

Contains(s, w) == \E i \in 1..Len(s) : s[i] = w

Statuses(result) == [i \in 1..Len(result) |-> result[i].status]

(* Variant: Data Issue only when every classification is an Error. *)
HasErrorAll(statuses) ==
    \A i \in 1..Len(statuses) :
        statuses[i] = <<"Error">> \/ StartsWith(statuses[i], "Error")

HasError(statuses) ==
    \E i \in 1..Len(statuses) :
        statuses[i] = <<"Error">> \/ StartsWith(statuses[i], "Error")

(* Variant: "Borderline" is not counted. *)
IsAbnormalNoBorderline(s) ==
    \/ StartsWith(s, "High")
    \/ StartsWith(s, "Low")
    \/ Contains(s, "Underweight")
    \/ Contains(s, "Overweight")

IsAbnormal(s) ==
    \/ StartsWith(s, "High")
    \/ StartsWith(s, "Low")
    \/ Contains(s, "Underweight")
    \/ Contains(s, "Overweight")
    \/ s = <<"Borderline">>

AbnormalCount(statuses) ==
    Cardinality({i \in 1..Len(statuses) : IsAbnormal(statuses[i])})

SummaryFor(abnormal_count) ==
    IF abnormal_count = 0 THEN
        <<"Stable / Normal",
          "All tracked parameters appear within normal ranges. Maintain your current lifestyle and regular check-ups.">>
    ELSE IF abnormal_count = 1 THEN
        <<"Mild Concern",
          "One parameter needs attention. Monitor your health and consider lifestyle adjustments.">>
    ELSE IF 2 <= abnormal_count /\ abnormal_count <= 3 THEN
        <<"Needs Attention",
          "Multiple parameters are outside the normal range. A detailed check-up and lifestyle review are recommended.">>
    ELSE
        <<"High Risk",
          "Several parameters are abnormal. Please consult a doctor for a complete evaluation.">>

(* Variant: no summary when some classification is an Error. *)
OverallSummaryNoneOnError(result) ==
    IF result = <<>> \/ HasError(Statuses(result)) THEN NoSummary
    ELSE SummaryFor(AbnormalCount(Statuses(result)))

OverallSummary(result) ==
    IF result = <<>> THEN NoSummary
    ELSE IF HasError(Statuses(result)) THEN
        <<"Data Issue",
          "Some inputs were invalid. Please correct the highlighted fields and try again.">>
    ELSE SummaryFor(AbnormalCount(Statuses(result)))

(* The local variables of index() on a GET: nothing is evaluated. *)
NoLocals ==
    [result |-> <<>>, overall_summary |-> NoSummary,
     hb |-> PyNone, sugar |-> PyNone, bp_sys |-> PyNone, bp_dia |-> PyNone,
     chol |-> PyNone, height_cm |-> PyNone, weight_kg |-> PyNone,
     bmi_value |-> PyNone]

(* The body of index() on a POST up to the overall summary: the five try *)
(* blocks in order, each adding its classification to result.            *)
Evaluate(f) ==
    LET e1 == EvalHb(FormGetOrNone(f, "hb"))
        e2 == EvalSugar(FormGetOrNone(f, "sugar"))
        e3 == EvalBP(FormGetOrNone(f, "bp_sys"), FormGetOrNone(f, "bp_dia"))
        e4 == EvalChol(FormGetOrNone(f, "chol"))
        e5 == EvalBMI(FormGetOrNone(f, "height"), FormGetOrNone(f, "weight"),
                      NoLocals.bmi_value)
        res == <<e1.cls, e2.cls, e3.cls, e4.cls, e5.cls>>
    IN [result |-> res, overall_summary |-> OverallSummary(res),
        hb |-> e1.hb, sugar |-> e2.sugar,
        bp_sys |-> e3.bp_sys, bp_dia |-> e3.bp_dia, chol |-> e4.chol,
        height_cm |-> e5.height_cm, weight_kg |-> e5.weight_kg,
        bmi_value |-> e5.bmi_value]

ValueFields ==
    {"hb", "sugar", "bp_sys", "bp_dia", "chol", "height_cm", "weight_kg",
     "bmi_value"}

(* all(v is not None for v in [hb, ..., bmi_value]) *)
AllValid(l) == \A k \in ValueFields : l[k] # PyNone

---------------------------------------------------------------------------
(* The table "reports" *)

(* Binding a float to a REAL column: SQLite stores NaN as NULL. *)
StoreReal(x) == IF x.t = "nan" THEN PyNone ELSE x

(* Binding a Python int to an INTEGER column: sqlite3 raises OverflowError *)
(* for an int outside 64 bits.                                             *)
BindIntFails(x) == x.t = "huge"

SaveFails(l) == BindIntFails(l.bp_sys) \/ BindIntFails(l.bp_dia)

NewRow(id, l, user_id) ==
    [id |-> id, hb |-> StoreReal(l.hb), sugar |-> StoreReal(l.sugar),
     bp_sys |-> l.bp_sys, bp_dia |-> l.bp_dia, chol |-> StoreReal(l.chol),
     height_cm |-> StoreReal(l.height_cm),
     weight_kg |-> StoreReal(l.weight_kg),
     bmi |-> StoreReal(l.bmi_value), user_id |-> user_id]

RECURSIVE OrderById(_)
OrderById(rows) ==
    IF rows = {} THEN <<>>
    ELSE LET first == CHOOSE r \in rows : \A q \in rows : r.id <= q.id
         IN <<first>> \o OrderById(rows \ {first})

(* Variant: the listing is not filtered by owner. *)
SelectReportsUnscoped(rows, user_id) == OrderById(rows)

(* SELECT ... FROM reports [WHERE user_id = ?] ORDER BY id ASC; user_id 0 *)
(* stands for the guest, who is shown every row.                          *)
SelectReports(rows, user_id) ==
    IF user_id # 0
    THEN OrderById({r \in rows : r.user_id = user_id})
    ELSE OrderById(rows)

(* The columns of the export: all but user_id. *)
CsvRow(r) ==
    [id |-> r.id, hb |-> r.hb, sugar |-> r.sugar, bp_sys |-> r.bp_sys,
     bp_dia |-> r.bp_dia, chol |-> r.chol, height_cm |-> r.height_cm,
     weight_kg |-> r.weight_kg, bmi |-> r.bmi]

CsvHeader ==
    <<"ID", "Created At", "Hemoglobin", "Fasting Sugar", "BP Systolic",
      "BP Diastolic", "Cholesterol", "Height (cm)", "Weight (kg)", "BMI">>

(* Variant: the owner is not part of the WHERE clause. *)
DeleteOneAnyOwner(rows, report_id, user_id) ==
    {r \in rows : r.id # report_id}

(* DELETE FROM reports WHERE id = ? [AND user_id = ?] *)
DeleteOne(rows, report_id, user_id) ==
    IF user_id # 0
    THEN {r \in rows : ~(r.id = report_id /\ r.user_id = user_id)}
    ELSE {r \in rows : r.id # report_id}

(* DELETE FROM reports [WHERE user_id = ?] *)
DeleteAll(rows, user_id) ==
    IF user_id # 0
    THEN {r \in rows : r.user_id # user_id}
    ELSE {}

Ids(rows) == {r.id : r \in rows}

---------------------------------------------------------------------------
(* Users and the session *)

NoSession == [user_id |-> 0, user_name |-> ""]

(* generate_password_hash / check_password_hash *)
PasswordHash(password) == <<"hash", password>>

CheckPasswordHash(hash, password) == hash = PasswordHash(password)

(* (text or "").strip() *)
Strip(text) ==
    CASE text = " ann " -> "ann"
      [] text = " A@x " -> "A@x"
      [] OTHER -> text

(* text.lower() *)
Lower(text) ==
    CASE text = "A@x" -> "a@x"
      [] OTHER -> text

UserByEmail(email) == {i \in 1..Len(users) : users[i].email = email}

---------------------------------------------------------------------------
(* Inputs *)

RawNames == {" ann "}

RawEmails == {"", " A@x ", "b@x"}

RawPasswords == {"pw", "bad"}

BlankForm ==
    [hb |-> Absent, sugar |-> Absent, bp_sys |-> Absent, bp_dia |-> Absent,
     chol |-> Absent, height |-> Absent, weight |-> Absent]

(* hb=14, sugar=100, bp=120/80, chol=180, height=170, weight=65 *)
FormNormal ==
    [hb |-> Dec(14), sugar |-> Dec(100), bp_sys |-> Dec(120),
     bp_dia |-> Dec(80), chol |-> Dec(180), height |-> Dec(170),
     weight |-> Dec(65)]

FormSugarEmpty == [FormNormal EXCEPT !.sugar = Empty]

(* The forms submitted under Spec *)
Forms == {FormNormal, FormSugarEmpty}

(* The forms submitted under SpecEval: every combination of these fields *)
HbTexts == {Absent, Dec1(119), Dec(12), TxtNaN}

SugarTexts == {Empty, Dec(69), Dec(100), Dec(126)}

BpSysTexts ==
    {Absent, Dec1(1205), Dec(89), Dec(90), Dec(140), Dec(141), Dec(200),
     TxtHuge(1)}

BpDiaTexts == {Junk, Dec(50), Dec(60), Dec(90), Dec(91)}

CholTexts == {Empty, Dec(200), Dec(201), Dec(240), Dec(241)}

HeightTexts == {Absent, Dec(0), Dec(170), Dec(200)}

WeightTexts == {Junk, Dec(50), Dec(70), Dec(74), TxtNaN}

EvalForms ==
    [hb : HbTexts, sugar : SugarTexts, bp_sys : BpSysTexts,
     bp_dia : BpDiaTexts, chol : CholTexts, height : HeightTexts,
     weight : WeightTexts]

---------------------------------------------------------------------------
(* Requests *)

Resp(route, method, arg, code, view, rows, error) ==
    [route |-> route, method |-> method, arg |-> arg, code |-> code,
     view |-> view, rows |-> rows, error |-> error]

Init ==
    /\ users = <<>>
    /\ session = NoSession
    /\ reports = {}
    /\ nextId = 0
    /\ form = BlankForm
    /\ response = Resp("", "", 0, 0, "", <<>>, "")
    /\ locals = NoLocals
    /\ log = <<>>
    /\ deleted = {}

InitEval ==
    /\ users = <<>>
    /\ session = NoSession
    /\ reports = {}
    /\ nextId = 0
    /\ form \in EvalForms
    /\ response = Resp("", "", 0, 0, "", <<>>, "")
    /\ locals = NoLocals
    /\ log = <<>>
    /\ deleted = {}

(* GET /register and GET /login *)
auth_get(route, view) ==
    /\ response' =
          IF session.user_id # 0
          THEN Resp(route, "GET", 0, 302, "index", <<>>, "")
          ELSE Resp(route, "GET", 0, 200, view, <<>>, "")
    /\ locals' = NoLocals
    /\ UNCHANGED <<users, session, reports, nextId, form, log, deleted>>

register_get == auth_get("/register", "register.html")

login_get == auth_get("/login", "login.html")

(* POST /register *)
register(raw_name, raw_email, raw_password) ==
    LET name == Strip(raw_name)
        email == Lower(Strip(raw_email))
        password == raw_password
        user_id == Len(users) + 1
    IN /\ locals' = NoLocals
       /\ UNCHANGED <<reports, nextId, form, log, deleted>>
       /\ IF session.user_id # 0 THEN
              /\ response' = Resp("/register", "POST", 0, 302, "index", <<>>, "")
              /\ UNCHANGED <<users, session>>
          ELSE IF name = "" \/ email = "" \/ password = "" THEN
              /\ response' = Resp("/register", "POST", 0, 200, "register.html",
                                  <<>>, "All fields are required.")
              /\ UNCHANGED <<users, session>>
          ELSE IF UserByEmail(email) # {} THEN
              /\ response' = Resp("/register", "POST", 0, 200, "register.html",
                                  <<>>, "Email is already registered. Please login.")
              /\ UNCHANGED <<users, session>>
          ELSE
              /\ users' = Append(users, [id |-> user_id, name |-> name,
                                         email |-> email,
                                         password_hash |-> PasswordHash(password)])
              /\ session' = [user_id |-> user_id, user_name |-> name]
              /\ response' = Resp("/register", "POST", 0, 302, "index", <<>>, "")

(* POST /login *)
login(raw_email, raw_password) ==
    LET email == Lower(Strip(raw_email))
        password == raw_password
        found == UserByEmail(email)
    IN /\ locals' = NoLocals
       /\ UNCHANGED <<users, reports, nextId, form, log, deleted>>
       /\ IF session.user_id # 0 THEN
              /\ response' = Resp("/login", "POST", 0, 302, "index", <<>>, "")
              /\ UNCHANGED session
          ELSE IF \E i \in found :
                      CheckPasswordHash(users[i].password_hash, password) THEN
              LET user == users[CHOOSE i \in found : TRUE]
              IN /\ session' = [user_id |-> user.id, user_name |-> user.name]
                 /\ response' = Resp("/login", "POST", 0, 302, "index", <<>>, "")
          ELSE
              /\ response' = Resp("/login", "POST", 0, 200, "login.html", <<>>,
                                  "Invalid email or password.")
              /\ UNCHANGED session

(* GET /logout *)
logout ==
    /\ session' = NoSession
    /\ response' = Resp("/logout", "GET", 0, 302, "index", <<>>, "")
    /\ locals' = NoLocals
    /\ UNCHANGED <<users, reports, nextId, form, log, deleted>>

(* GET / *)
index_get ==
    /\ locals' = NoLocals
    /\ response' = Resp("/", "GET", 0, 200, "index.html", <<>>, "")
    /\ UNCHANGED <<users, session, reports, nextId, form, log, deleted>>

(* save_report: one INSERT; AUTOINCREMENT hands out the next id. *)
save_report(l, user_id) ==
    LET row == NewRow(nextId + 1, l, user_id)
    IN /\ nextId < MaxReports
       /\ nextId' = nextId + 1
       /\ reports' = reports \cup {row}
       /\ log' = Append(log, row)

(* POST / with the form f *)
index_post(f) ==
    LET l == Evaluate(f)
    IN /\ locals' = l
       /\ UNCHANGED <<users, session, form, deleted>>
       /\ IF AllValid(l) THEN
              IF SaveFails(l) THEN
                  /\ response' = Resp("/", "POST", 0, 500, "", <<>>, "OverflowError")
                  /\ UNCHANGED <<reports, nextId, log>>
              ELSE
                  /\ save_report(l, session.user_id)
                  /\ response' = Resp("/", "POST", 0, 200, "index.html", <<>>, "")
          ELSE
              /\ response' = Resp("/", "POST", 0, 200, "index.html", <<>>, "")
              /\ UNCHANGED <<reports, nextId, log>>

(* GET /history *)
history ==
    /\ response' = Resp("/history", "GET", 0, 200, "history.html",
                        SelectReports(reports, session.user_id), "")
    /\ locals' = NoLocals
    /\ UNCHANGED <<users, session, reports, nextId, form, log, deleted>>

(* GET /export_csv *)
export_csv ==
    LET rows == SelectReports(reports, session.user_id)
    IN /\ response' = Resp("/export_csv", "GET", 0, 200, "health_reports.csv",
                           <<CsvHeader>> \o [i \in 1..Len(rows) |-> CsvRow(rows[i])],
                           "")
       /\ locals' = NoLocals
       /\ UNCHANGED <<users, session, reports, nextId, form, log, deleted>>

(* GET /clear_history *)
clear_history ==
    /\ reports' = DeleteAll(reports, session.user_id)
    /\ deleted' = deleted \cup (Ids(reports) \ Ids(reports'))
    /\ response' = Resp("/clear_history", "GET", 0, 302, "history", <<>>, "")
    /\ locals' = NoLocals
    /\ UNCHANGED <<users, session, nextId, form, log>>

(* GET /delete/<report_id> *)
delete_report(report_id) ==
    /\ reports' = DeleteOne(reports, report_id, session.user_id)
    /\ deleted' = deleted \cup (Ids(reports) \ Ids(reports'))
    /\ response' = Resp("/delete", "GET", report_id, 302, "history", <<>>, "")
    /\ locals' = NoLocals
    /\ UNCHANGED <<users, session, nextId, form, log>>

Next ==
    \/ register_get
    \/ login_get
    \/ \E n \in RawNames, e \in RawEmails : register(n, e, "pw")
    \/ \E e \in RawEmails \ {""}, p \in RawPasswords : login(e, p)
    \/ logout
    \/ index_get
    \/ \E f \in Forms : index_post(f)
    \/ history
    \/ export_csv
    \/ clear_history
    \/ \E id \in 1..(nextId + 1) : delete_report(id)

Spec == Init /\ [][Next]_vars

(* The analyzer alone: the form drawn at the start is submitted. *)
NextEval ==
    \/ index_get
    \/ index_post(form)

SpecEval == InitEval /\ [][NextEval]_vars

---------------------------------------------------------------------------
(* Properties *)

(* The last request was a POST to the analyzer; under SpecEval its form is *)
(* the variable form.                                                      *)
Posted == response.route = "/" /\ response.method = "POST"

RowFields ==
    {"hb", "sugar", "bp_sys", "bp_dia", "chol", "height_cm", "weight_kg", "bmi"}

ErrorAt(result) == {i \in 1..Len(result) : result[i].status = <<"Error">>}

(* C1: every stored report has all eight numeric fields present. *)
C1_StoredReportsComplete ==
    \A r \in reports : \A k \in RowFields : r[k] # PyNone

(* C2: after a POST the overall status is "Data Issue" if and only if some *)
(* classification has status "Error", whatever the other ones are.         *)
C2_DataIssueIffError ==
    Posted =>
        ((ErrorAt(locals.result) # {})
            <=> (locals.overall_summary # NoSummary
                 /\ locals.overall_summary[1] = "Data Issue"))

(* One Error while the four other classifications are all abnormal. *)
C2_Witness ==
    /\ Posted
    /\ Cardinality(ErrorAt(locals.result)) = 1
    /\ AbnormalCount(Statuses(locals.result)) = 4
    /\ locals.overall_summary[1] = "Data Issue"

(* A classification the claim C3 counts as abnormal: Low, High, Borderline, *)
(* or a BMI label whose category is Underweight or Overweight.              *)
CountedAbnormal(s) ==
    \/ s \in {<<"Low">>, <<"High">>, <<"Borderline">>}
    \/ Len(s) = 4 /\ s[3] \in {"Underweight", "Overweight"}

NumberAbnormal(result) ==
    Cardinality({i \in 1..Len(result) : CountedAbnormal(result[i].status)})

(* C3: with no Error the overall status is decided by the number of         *)
(* abnormal classifications alone: 0 "Stable / Normal", 1 "Mild Concern",   *)
(* 2 or 3 "Needs Attention", 4 or 5 "High Risk".                            *)
C3_OverallByCount ==
    (Posted /\ ErrorAt(locals.result) = {}) =>
        LET k == NumberAbnormal(locals.result)
        IN /\ locals.overall_summary # NoSummary
           /\ locals.overall_summary[1] =
                 CASE k = 0 -> "Stable / Normal"
                   [] k = 1 -> "Mild Concern"
                   [] k \in {2, 3} -> "Needs Attention"
                   [] OTHER -> "High Risk"

(* Cholesterol is the only abnormal metric and it is Borderline. *)
C3_Witness ==
    /\ Posted
    /\ ErrorAt(locals.result) = {}
    /\ NumberAbnormal(locals.result) = 1
    /\ StatusOf(locals.result, "Cholesterol") = <<"Borderline">>
    /\ locals.overall_summary[1] = "Mild Concern"

(* C4 as stated: cholesterol 240 is Normal, 241 High, 201 Borderline and *)
(* 200 Normal.                                                           *)
C4_CholBoundariesAsStated ==
    Posted =>
        LET st == StatusOf(locals.result, "Cholesterol")
        IN /\ form.chol = Dec(240) => st = <<"Normal">>
           /\ form.chol = Dec(241) => st = <<"High">>
           /\ form.chol = Dec(201) => st = <<"Borderline">>
           /\ form.chol = Dec(200) => st = <<"Normal">>

(* C4 amended: cholesterol 240 is Borderline (not High), 241 High, 201 *)
(* Borderline and 200 Normal.                                          *)
C4_CholBoundaries ==
    Posted =>
        LET st == StatusOf(locals.result, "Cholesterol")
        IN /\ form.chol = Dec(240) => st = <<"Borderline">>
           /\ form.chol = Dec(241) => st = <<"High">>
           /\ form.chol = Dec(201) => st = <<"Borderline">>
           /\ form.chol = Dec(200) => st = <<"Normal">>

C4_Witness ==
    /\ Posted
    /\ form.chol = Dec(240)
    /\ StatusOf(locals.result, "Cholesterol") = <<"Borderline">>

(* The text of an integer (digits only, of any size) and its comparisons *)
IsIntText(raw) == (raw.c = "dec" /\ raw.d = 1) \/ raw.c = "huge"

IntTextLess(raw, k) == IF raw.c = "huge" THEN raw.n < 0 ELSE raw.n < k

IntTextMore(raw, k) == IF raw.c = "huge" THEN raw.n > 0 ELSE raw.n > k

(* C5: for every integer pair (sys, dia) blood pressure is Low when sys<90 *)
(* or dia<60, checked first; otherwise High when sys>140 or dia>90;        *)
(* otherwise Normal.  (90, 60) and (140, 90) are Normal.                   *)
C5_BloodPressure ==
    (Posted /\ IsIntText(form.bp_sys) /\ IsIntText(form.bp_dia)) =>
        LET st == StatusOf(locals.result, "Blood Pressure")
            sys == form.bp_sys
            dia == form.bp_dia
        IN /\ st = IF IntTextLess(sys, 90) \/ IntTextLess(dia, 60)
                   THEN <<"Low">>
                   ELSE IF IntTextMore(sys, 140) \/ IntTextMore(dia, 90)
                        THEN <<"High">>
                        ELSE <<"Normal">>
           /\ (sys = Dec(90) /\ dia = Dec(60)) => st = <<"Normal">>
           /\ (sys = Dec(140) /\ dia = Dec(90)) => st = <<"Normal">>

(* sys=200, dia=50 matches both rules and is Low. *)
C5_Witness ==
    /\ Posted
    /\ form.bp_sys = Dec(200)
    /\ form.bp_dia = Dec(50)
    /\ StatusOf(locals.result, "Blood Pressure") = <<"Low">>

(* Texts float() and int() reject *)
FloatRejects(raw) == raw.c \in {"absent", "empty", "junk"}

IntRejects(raw) == ~IsIntText(raw)

MetricNames ==
    <<"Hemoglobin", "Fasting Sugar", "Blood Pressure", "Cholesterol", "BMI">>

(* The form field k, the metric it belongs to, the local variable that  *)
(* holds its number, whether its text is rejected, and the texts of the *)
(* field that parse.                                                    *)
FieldNames == {"hb", "sugar", "bp_sys", "bp_dia", "chol", "height", "weight"}

MetricOf(k) ==
    CASE k = "hb" -> 1
      [] k = "sugar" -> 2
      [] k \in {"bp_sys", "bp_dia"} -> 3
      [] k = "chol" -> 4
      [] OTHER -> 5

LocalOf(k) ==
    CASE k = "height" -> "height_cm"
      [] k = "weight" -> "weight_kg"
      [] OTHER -> k

Rejected(f, k) ==
    IF k \in {"bp_sys", "bp_dia"}
    THEN IntRejects(FormGetOrNone(f, k))
    ELSE FloatRejects(FormGetOrNone(f, k))

TextsOf(k) ==
    CASE k = "hb" -> HbTexts
      [] k = "sugar" -> SugarTexts
      [] k = "bp_sys" -> BpSysTexts
      [] k = "bp_dia" -> BpDiaTexts
      [] k = "chol" -> CholTexts
      [] k = "height" -> HeightTexts
      [] OTHER -> WeightTexts

Repaired(f, k) ==
    {[f EXCEPT ![k] = v] : v \in {t \in TextsOf(k) : ~Rejected([f EXCEPT ![k] = t], k)}}

(* C6: a POST yields exactly one classification for each of the five      *)
(* metrics whatever the seven fields hold; a field that does not parse    *)
(* gives its metric the status "Error" and leaves its number absent; and  *)
(* the classification of every other metric is what it would be had the   *)
(* field been valid.                                                      *)
C6_NeverAborts ==
    Posted =>
        /\ [i \in 1..Len(locals.result) |-> locals.result[i].metric] = MetricNames
        /\ \A k \in FieldNames :
              Rejected(form, k) =>
                  /\ locals.result[MetricOf(k)].status = <<"Error">>
                  /\ locals[LocalOf(k)] = PyNone
                  /\ \A g \in Repaired(form, k) :
                        \A j \in 1..5 :
                            j # MetricOf(k) =>
                                Evaluate(g).result[j] = locals.result[j]

(* A non-integer systolic value and a height of zero, with hemoglobin, *)
(* sugar and cholesterol classified.                                   *)
C6_Witness ==
    /\ Posted
    /\ form.bp_sys = Dec1(1205)
    /\ form.height = Dec(0)
    /\ ErrorAt(locals.result) = {3, 5}
    /\ locals.bp_sys = PyNone

(* C7: for every request to the analyzer the overall summary is present *)
(* if and only if some classification was produced, and it is absent    *)
(* only when no inputs were supplied (a GET).                           *)
C7_SummaryIffClassified ==
    response.route = "/" =>
        /\ (locals.overall_summary # NoSummary) <=> (Len(locals.result) >= 1)
        /\ locals.overall_summary = NoSummary => response.method = "GET"

(* A POST whose seven fields all fail to parse still has a summary. *)
C7_Witness ==
    /\ Posted
    /\ ErrorAt(locals.result) = 1..5
    /\ locals.overall_summary # NoSummary

(* C10: a POST saves a report if and only if its overall status is not *)
(* "Data Issue".                                                       *)
C10_SavedIffNoDataIssue ==
    [][(response'.route = "/" /\ response'.method = "POST") =>
          ((nextId' = nextId + 1 /\ Len(log') = Len(log) + 1)
              <=> locals'.overall_summary[1] # "Data Issue")]_vars

---------------------------------------------------------------------------
(* Properties of the stored reports *)

(* C8: logged in, /delete/<id> removes the row with that id only if the   *)
(* user owns it and /clear_history removes exactly the user's rows; as a  *)
(* guest, /delete/<id> removes the row with that id whoever owns it and   *)
(* /clear_history removes every row.                                      *)
C8_DeletionScoped ==
    [][/\ response'.route = "/delete" =>
            reports' = reports \
               {r \in reports :
                   /\ r.id = response'.arg
                   /\ (session.user_id # 0 => r.user_id = session.user_id)}
       /\ response'.route = "/clear_history" =>
            reports' = reports \
               {r \in reports :
                   session.user_id # 0 => r.user_id = session.user_id}
      ]_vars

(* A logged-in user asked to delete a report of another owner, which is *)
(* still stored.                                                        *)
C8_Witness ==
    /\ response.route = "/delete"
    /\ session.user_id # 0
    /\ \E r \in reports :
          r.id = response.arg /\ r.user_id # session.user_id

(* The rows saved for the viewer (all rows for the guest) and not deleted *)
(* since, in the order of their insertion.                                *)
SavedAndKept(user_id) ==
    LET Keep(r) == r.id \notin deleted /\ (user_id # 0 => r.user_id = user_id)
    IN SelectSeq(log, Keep)

(* C9: the history and the CSV export list exactly the rows saved under *)
(* the logged-in user and not deleted since (every owner's rows for a   *)
(* guest), in insertion order.                                          *)
C9_ListingExact ==
    /\ response.route = "/history" =>
          response.rows = SavedAndKept(session.user_id)
    /\ response.route = "/export_csv" =>
          response.rows =
             <<CsvHeader>> \o
             [i \in 1..Len(SavedAndKept(session.user_id)) |->
                 CsvRow(SavedAndKept(session.user_id)[i])]

(* A logged-in user's history lists a row while a row of another owner is *)
(* stored and a row has been deleted.                                     *)
C9_Witness ==
    /\ response.route = "/history"
    /\ session.user_id # 0
    /\ Len(response.rows) >= 1
    /\ \E r \in reports : r.user_id # session.user_id
    /\ deleted # {}

===========================================================================
